---- MODULE Spec2Model ----
(***************************************************************************)
(* Model of avatar_overlay.py: the activity-to-state resolution engine.    *)
(*                                                                         *)
(*   StateResolver   ledger of five timestamps + resolve()                 *)
(*   ProjectWatcher  filesystem-event filter feeding on_fs_activity        *)
(*   LogTailer       incremental reader + ordered classification           *)
(*   AvatarApp       timers and signal wiring                              *)
(*                                                                         *)
(* Time is counted in tenths of a second (time.time() * 10), so the        *)
(* default durations 6.0 / 4.0 / 3.0 / 1.2 / 8.0 s are 60 / 40 / 30 / 12 / *)
(* 80.  One handler reads the clock once at this granularity.              *)
(***************************************************************************)
EXTENDS Integers, Sequences, FiniteSets, TLC

VARIABLES
    now,            \* the value time.time() returns (tenths of a second)
    config,         \* StateResolver.config (StateConfig)
    ts,             \* StateResolver.timestamps (StateTimestamps)
    current_state,  \* AvatarOverlay.current_state
    hist,           \* history: the mutator calls made so far, <<[m, t]>>
    project_dir,    \* AvatarApp.project_dir, the watched root
    exclude_arg,    \* args.exclude, the --exclude option ("" / absent: <<>>)
    excludes,       \* ProjectWatcher.excludes
    pending,        \* activity signals emitted and not yet delivered to the slot
    last_event,     \* history: the last event on_any_event handled, and what it emitted
    fs_stores,      \* history: stores to last_fs_activity since the last state tick
    last_tick,      \* history: n flips at every state tick
    log_path,       \* whether AvatarApp.log_path is set (--log was given)
    file_exists,    \* whether the log file exists
    file,           \* the bytes of the log file
    position,       \* LogTailer.position, the cursor
    preexisting,    \* history: leading bytes of the file that the constructor found
    kept_old,       \* history: a truncation left some of those bytes in place
    writes,         \* history: operations of the log writer so far
    polls,          \* history: check() calls so far
    last_check      \* history: what the last check() saw and did

resolverVars == <<now, config, ts, current_state, hist>>
watchVars == <<project_dir, exclude_arg, excludes, pending, last_event>>
tailVars == <<log_path, file_exists, file, position, preexisting, kept_old, writes, polls,
             last_check>>
vars == <<now, config, ts, current_state, hist,
          project_dir, exclude_arg, excludes, pending, last_event, fs_stores, last_tick,
          log_path, file_exists, file, position, preexisting, kept_old, writes, polls, last_check>>

(***************************************************************************)
(* Bounds of the exploration.                                              *)
(***************************************************************************)
StartTime == 1000   \* clock reading when the application starts
MaxTime == 7        \* how far the clock is followed after StartTime
MaxEvents == 2      \* mutator calls explored in one run
Slack == 1          \* snapshot ages explored on each side of a threshold
MaxDepth == 2       \* components of an event path below the watched root
MaxPending == 2     \* activity signals waiting in the event queue
MaxFile == 9        \* bytes in the log file
MaxWrites == 3      \* operations of the log writer in one run
MaxCut == 1         \* bytes a truncation leaves in the file
MaxPolls == 2       \* check() calls in one run

LogInterval == 5    \* log_timer.start(500): tenths of a second between polls

(***************************************************************************)
(* State (Enum) and its priority values.                                   *)
(***************************************************************************)
State == {"IDLE", "THINKING", "TYPING", "RUNNING", "SUCCESS", "ERROR"}

StateValue(s) ==
    CASE s = "IDLE" -> 0
      [] s = "THINKING" -> 1
      [] s = "TYPING" -> 2
      [] s = "RUNNING" -> 3
      [] s = "SUCCESS" -> 4
      [] s = "ERROR" -> 5

(***************************************************************************)
(* StateTimestamps(): every field starts at 0.0.                           *)
(***************************************************************************)
StateTimestampsAtStart ==
    [last_fs_activity |-> StartTime, last_log_activity |-> StartTime,
     last_running |-> StartTime, last_success |-> StartTime, last_error |-> StartTime]

StateTimestamps ==
    [last_fs_activity |-> 0, last_log_activity |-> 0, last_running |-> 0,
     last_success |-> 0, last_error |-> 0]

(***************************************************************************)
(* StateConfig(): the defaults, in tenths of a second.                     *)
(***************************************************************************)
StateConfig ==
    [error_duration |-> 60, success_duration |-> 40, running_duration |-> 30,
     typing_threshold |-> 12, thinking_threshold |-> 80]

(***************************************************************************)
(* A StateConfig passed to StateResolver(config) with short durations, in  *)
(* the same order as the defaults (typing < running < success < error <    *)
(* thinking), so that every window opens and closes within MaxTime.        *)
(***************************************************************************)
FastConfig ==
    [error_duration |-> 4, success_duration |-> 3, running_duration |-> 2,
     typing_threshold |-> 1, thinking_threshold |-> 5]

Max(a, b) == IF a >= b THEN a ELSE b

(***************************************************************************)
(* StateResolver.resolve, with the clock reading and the ledger explicit.  *)
(***************************************************************************)
ResolveSuccessFirst(t, cfg, l) ==
    IF t - l.last_success < cfg.success_duration THEN "SUCCESS"
    ELSE IF t - l.last_error < cfg.error_duration THEN "ERROR"
    ELSE IF t - l.last_running < cfg.running_duration THEN "RUNNING"
    ELSE IF t - l.last_fs_activity < cfg.typing_threshold THEN "TYPING"
    ELSE IF t - Max(l.last_fs_activity, l.last_log_activity) < cfg.thinking_threshold
         THEN "THINKING"
    ELSE "IDLE"

ResolveInclusive(t, cfg, l) ==
    IF t - l.last_error <= cfg.error_duration THEN "ERROR"
    ELSE IF t - l.last_success <= cfg.success_duration THEN "SUCCESS"
    ELSE IF t - l.last_running <= cfg.running_duration THEN "RUNNING"
    ELSE IF t - l.last_fs_activity <= cfg.typing_threshold THEN "TYPING"
    ELSE IF t - Max(l.last_fs_activity, l.last_log_activity) <= cfg.thinking_threshold
         THEN "THINKING"
    ELSE "IDLE"

ResolveThinkingFromLog(t, cfg, l) ==
    IF t - l.last_error < cfg.error_duration THEN "ERROR"
    ELSE IF t - l.last_success < cfg.success_duration THEN "SUCCESS"
    ELSE IF t - l.last_running < cfg.running_duration THEN "RUNNING"
    ELSE IF t - l.last_fs_activity < cfg.typing_threshold THEN "TYPING"
    ELSE IF t - l.last_log_activity < cfg.thinking_threshold THEN "THINKING"
    ELSE "IDLE"

ResolveRunningFirst(t, cfg, l) ==
    IF t - l.last_running < cfg.running_duration THEN "RUNNING"
    ELSE IF t - l.last_error < cfg.error_duration THEN "ERROR"
    ELSE IF t - l.last_success < cfg.success_duration THEN "SUCCESS"
    ELSE IF t - l.last_fs_activity < cfg.typing_threshold THEN "TYPING"
    ELSE IF t - Max(l.last_fs_activity, l.last_log_activity) < cfg.thinking_threshold
         THEN "THINKING"
    ELSE "IDLE"

Resolve(t, cfg, l) ==
    IF t - l.last_error < cfg.error_duration THEN "ERROR"
    ELSE IF t - l.last_success < cfg.success_duration THEN "SUCCESS"
    ELSE IF t - l.last_running < cfg.running_duration THEN "RUNNING"
    ELSE IF t - l.last_fs_activity < cfg.typing_threshold THEN "TYPING"
    ELSE IF t - Max(l.last_fs_activity, l.last_log_activity) < cfg.thinking_threshold
         THEN "THINKING"
    ELSE "IDLE"

(***************************************************************************)
(* The mutators of StateResolver: what each leaves in the ledger when it   *)
(* runs at clock reading t.                                                *)
(***************************************************************************)
StampFs(l, t) == [l EXCEPT !.last_fs_activity = t]

StampLogTouchesFs(l, t) == [l EXCEPT !.last_log_activity = t, !.last_fs_activity = t]

StampLog(l, t) == [l EXCEPT !.last_log_activity = t]

StampRunning(l, t) == StampLog([l EXCEPT !.last_running = t], t)

StampSuccessClearsError(l, t) ==
    [l EXCEPT !.last_success = t, !.last_log_activity = t, !.last_error = 0]

StampSuccessOnly(l, t) == [l EXCEPT !.last_success = t]

StampSuccess(l, t) == StampLog([l EXCEPT !.last_success = t], t)

StampErrorKeepWindow(l, t) ==
    IF t - l.last_error < config.error_duration
    THEN StampLog(l, t)
    ELSE StampLog([l EXCEPT !.last_error = t], t)

StampError(l, t) == StampLog([l EXCEPT !.last_error = t], t)

Record(m) == hist' = Append(hist, [m |-> m, t |-> now])

CanCall == Len(hist) < MaxEvents

on_fs_activity ==
    /\ CanCall
    /\ ts' = StampFs(ts, now)
    /\ fs_stores' = fs_stores + 1
    /\ Record("on_fs_activity")
    /\ UNCHANGED <<now, config, current_state, last_tick>>
    /\ UNCHANGED watchVars
    /\ UNCHANGED tailVars

on_log_activity ==
    /\ CanCall
    /\ ts' = StampLog(ts, now)
    /\ Record("on_log_activity")
    /\ UNCHANGED <<now, config, current_state, fs_stores, last_tick>>
    /\ UNCHANGED watchVars
    /\ UNCHANGED tailVars

on_running ==
    /\ CanCall
    /\ ts' = StampRunning(ts, now)
    /\ Record("on_running")
    /\ UNCHANGED <<now, config, current_state, fs_stores, last_tick>>
    /\ UNCHANGED watchVars
    /\ UNCHANGED tailVars

on_success ==
    /\ CanCall
    /\ ts' = StampSuccess(ts, now)
    /\ Record("on_success")
    /\ UNCHANGED <<now, config, current_state, fs_stores, last_tick>>
    /\ UNCHANGED watchVars
    /\ UNCHANGED tailVars

on_error ==
    /\ CanCall
    /\ ts' = StampError(ts, now)
    /\ Record("on_error")
    /\ UNCHANGED <<now, config, current_state, fs_stores, last_tick>>
    /\ UNCHANGED watchVars
    /\ UNCHANGED tailVars

(***************************************************************************)
(* AvatarOverlay.set_state and AvatarApp._update_state (the 200 ms timer). *)
(***************************************************************************)
SetStateGuardInverted(cur, state) == IF state # cur THEN cur ELSE state

set_state(cur, state) == IF state = cur THEN cur ELSE state

_update_state ==
    /\ current_state' = set_state(current_state, Resolve(now, config, ts))
    /\ fs_stores' = 0
    /\ last_tick' = [n |-> 1 - last_tick.n]
    /\ UNCHANGED <<now, config, ts, hist>>
    /\ UNCHANGED watchVars
    /\ UNCHANGED tailVars

(***************************************************************************)
(* The clock moves on by one tenth of a second.  It is followed MaxTime    *)
(* tenths with the short durations of FastConfig, and as much longer as    *)
(* the thinking threshold of the configuration is longer.                  *)
(***************************************************************************)
Advance ==
    /\ now - StartTime < MaxTime + (config.thinking_threshold - FastConfig.thinking_threshold)
    /\ now' = now + 1
    /\ UNCHANGED <<config, ts, current_state, hist, fs_stores, last_tick>>
    /\ UNCHANGED watchVars
    /\ UNCHANGED tailVars

(***************************************************************************)
(* Text.  A string is a sequence of tokens: a separator ("/" in a path,    *)
(* "," in the --exclude option) or a fragment of a name, so that the name  *)
(* node_modules_extra, <<"node_modules", "_extra">>, has node_modules as a *)
(* proper prefix.  Two names are equal when their sequences are.           *)
(***************************************************************************)
RECURSIVE SplitOn(_, _)
SplitOn(s, sep) ==
    IF s = <<>> THEN << <<>> >>
    ELSE LET rest == SplitOn(Tail(s), sep)
         IN  IF Head(s) = sep
             THEN << <<>> >> \o rest
             ELSE << <<Head(s)>> \o Head(rest) >> \o Tail(rest)

IsPrefix(a, b) == Len(a) <= Len(b) /\ SubSeq(b, 1, Len(a)) = a

(***************************************************************************)
(* Path(path).parts, as a set: the anchor "/" of an absolute path and the  *)
(* components between separators; empty and "." components are dropped.    *)
(***************************************************************************)
Parts(path) ==
    LET comps == SplitOn(path, "/")
    IN  {comps[i] : i \in {j \in DOMAIN comps : comps[j] \notin {<<>>, <<".">>}}}
            \cup (IF path # <<>> /\ Head(path) = "/" THEN {<<"/">>} ELSE {})

DEFAULT_EXCLUDES ==
    {<<".git">>, <<".svn">>, <<".hg">>,
     <<"node_modules">>, <<"__pycache__">>, <<".venv">>, <<"venv">>,
     <<".pytest_cache">>, <<".mypy_cache">>,
     <<"dist">>, <<"build">>, <<".next">>, <<".nuxt">>}

(***************************************************************************)
(* main: excludes = set(args.exclude.split(",")) when the option is given  *)
(* and not empty, else None.  None is written {}: both are falsy where     *)
(* ProjectWatcher.__init__ tests the argument.                             *)
(***************************************************************************)
ParseExcludes(arg) ==
    IF arg = <<>> THEN {}
    ELSE LET names == SplitOn(arg, ",") IN {names[i] : i \in DOMAIN names}

(***************************************************************************)
(* ProjectWatcher.__init__: self.excludes = excludes or DEFAULT_EXCLUDES.  *)
(***************************************************************************)
WatcherExcludes(ex) == IF ex # {} THEN ex ELSE DEFAULT_EXCLUDES

(***************************************************************************)
(* ProjectWatcher._should_ignore.                                          *)
(***************************************************************************)
ShouldIgnoreByPrefix(path, ex) ==
    \E part \in Parts(path) : \E name \in ex : IsPrefix(name, part)

_should_ignore(path, ex) == \E part \in Parts(path) : part \in ex

(***************************************************************************)
(* The events the observer delivers, and the --exclude values tried.       *)
(***************************************************************************)
Components == {<<"main.py">>, <<"node_modules">>, <<"node_modules", "_extra">>}

RECURSIVE Join(_)
Join(comps) ==
    IF Len(comps) = 1 THEN comps[1]
    ELSE comps[1] \o <<"/">> \o Join(Tail(comps))

ProjectDirs == {<<".">>, <<"/", "proj">>}

Paths(root) ==
    {root \o <<"/">> \o Join(cs) :
        cs \in UNION {[1..n -> Components] : n \in 1..MaxDepth}}

EventTypes == {"modified", "deleted"}

Events(root) == [src_path : Paths(root), is_directory : BOOLEAN, event_type : EventTypes]

ExcludeArgs == {<<>>, <<".cache", ",", "tmp">>, <<"node_modules", ",", "dist">>}

NoEvent == [src_path |-> <<>>, is_directory |-> TRUE, emitted |-> 0]

(***************************************************************************)
(* ProjectWatcher.on_any_event, on the observer's thread.  The emitted     *)
(* signal is queued for the slot on the main thread.                       *)
(***************************************************************************)
Emits(event, ex) ==
    IF event.is_directory THEN 0
    ELSE IF _should_ignore(event.src_path, ex) THEN 0
    ELSE 1

on_any_event(event) ==
    /\ pending < MaxPending
    /\ pending' = pending + Emits(event, excludes)
    /\ last_event' = [src_path |-> event.src_path, is_directory |-> event.is_directory,
                      emitted |-> Emits(event, excludes)]
    /\ UNCHANGED <<project_dir, exclude_arg, excludes, fs_stores, last_tick>>
    /\ UNCHANGED resolverVars
    /\ UNCHANGED tailVars

(***************************************************************************)
(* The slot connected in AvatarApp.start: one call of on_fs_activity per   *)
(* emitted signal.                                                         *)
(***************************************************************************)
DeliverActivity ==
    /\ pending > 0
    /\ CanCall
    /\ pending' = pending - 1
    /\ ts' = StampFs(ts, now)
    /\ fs_stores' = fs_stores + 1
    /\ Record("on_fs_activity")
    /\ UNCHANGED <<now, config, current_state, project_dir, exclude_arg, excludes,
                   last_event, last_tick>>
    /\ UNCHANGED tailVars

(***************************************************************************)
(* LogPatterns.  A log is a sequence of bytes, one character each; "xFF"   *)
(* is a byte that is not valid UTF-8.  Each pattern is an alternation of   *)
(* literal words, compiled with re.IGNORECASE.                             *)
(***************************************************************************)
RUNNING ==
    {<<"r", "u", "n", "n", "i", "n", "g">>,
     <<"e", "x", "e", "c", "u", "t", "i", "n", "g">>,
     <<"p", "y", "t", "e", "s", "t">>,
     <<"n", "p", "m", " ", "t", "e", "s", "t">>,
     <<"p", "n", "p", "m", " ", "t", "e", "s", "t">>,
     <<"y", "a", "r", "n", " ", "t", "e", "s", "t">>,
     <<"b", "u", "i", "l", "d">>,
     <<"c", "o", "m", "p", "i", "l", "e">>,
     <<"i", "n", "s", "t", "a", "l", "l">>}

ERROR ==
    {<<"e", "r", "r", "o", "r">>,
     <<"f", "a", "i", "l", "e", "d">>,
     <<"e", "x", "c", "e", "p", "t", "i", "o", "n">>,
     <<"t", "r", "a", "c", "e", "b", "a", "c", "k">>,
     <<"f", "a", "t", "a", "l">>}

SUCCESS ==
    {<<"s", "u", "c", "c", "e", "s", "s">>,
     <<"p", "a", "s", "s", "e", "d">>,
     <<"d", "o", "n", "e">>,
     <<"c", "o", "m", "p", "l", "e", "t", "e", "d">>,
     <<"f", "i", "n", "i", "s", "h", "e", "d">>}

LowerCase(c) ==
    CASE c = "A" -> "a"
      [] c = "B" -> "b"
      [] c = "C" -> "c"
      [] c = "D" -> "d"
      [] c = "E" -> "e"
      [] c = "F" -> "f"
      [] c = "G" -> "g"
      [] c = "H" -> "h"
      [] c = "I" -> "i"
      [] c = "J" -> "j"
      [] c = "K" -> "k"
      [] c = "L" -> "l"
      [] c = "M" -> "m"
      [] c = "N" -> "n"
      [] c = "O" -> "o"
      [] c = "P" -> "p"
      [] c = "Q" -> "q"
      [] c = "R" -> "r"
      [] c = "S" -> "s"
      [] c = "T" -> "t"
      [] c = "U" -> "u"
      [] c = "V" -> "v"
      [] c = "W" -> "w"
      [] c = "X" -> "x"
      [] c = "Y" -> "y"
      [] c = "Z" -> "z"
      [] OTHER -> c

(***************************************************************************)
(* pattern.search(text): some alternative occurs somewhere in the text,    *)
(* letter case ignored.                                                    *)
(***************************************************************************)
Search(pattern, text) ==
    LET low == [i \in 1..Len(text) |-> LowerCase(text[i])]
    IN  \E word \in pattern :
            \E i \in 1..(Len(low) - Len(word) + 1) :
                SubSeq(low, i, i + Len(word) - 1) = word

(***************************************************************************)
(* Decoding with encoding="utf-8", errors="ignore": invalid bytes vanish.  *)
(***************************************************************************)
Decode(bytes) == SelectSeq(bytes, LAMBDA b : b # "xFF")

(***************************************************************************)
(* LogTailer._analyze: the mutators it calls for a chunk, in order.        *)
(***************************************************************************)
AnalyzeEveryMatch(content) ==
    LET hits == (IF Search(ERROR, content) THEN <<"on_error">> ELSE <<>>)
                \o (IF Search(SUCCESS, content) THEN <<"on_success">> ELSE <<>>)
                \o (IF Search(RUNNING, content) THEN <<"on_running">> ELSE <<>>)
    IN  IF hits = <<>> THEN <<"on_log_activity">> ELSE hits

_analyze(content) ==
    IF Search(ERROR, content) THEN <<"on_error">>
    ELSE IF Search(SUCCESS, content) THEN <<"on_success">>
    ELSE IF Search(RUNNING, content) THEN <<"on_running">>
    ELSE <<"on_log_activity">>

Stamp(l, m, t) ==
    CASE m = "on_error" -> StampError(l, t)
      [] m = "on_success" -> StampSuccess(l, t)
      [] m = "on_running" -> StampRunning(l, t)
      [] m = "on_log_activity" -> StampLog(l, t)
      [] m = "on_fs_activity" -> StampFs(l, t)

RECURSIVE StampAll(_, _, _)
StampAll(l, calls, t) ==
    IF calls = <<>> THEN l ELSE StampAll(Stamp(l, Head(calls), t), Tail(calls), t)

RECURSIVE Records(_, _)
Records(calls, t) ==
    IF calls = <<>> THEN <<>> ELSE <<[m |-> Head(calls), t |-> t]>> \o Records(Tail(calls), t)

(***************************************************************************)
(* LogTailer.__init__: the cursor starts at the size of an existing file.  *)
(***************************************************************************)
CursorAtStart(exists, size) == 0

InitialPosition(exists, size) == IF exists THEN size ELSE 0

(***************************************************************************)
(* LogTailer.check, after stat: a file smaller than the cursor was         *)
(* truncated or rotated, and the cursor goes back to 0.                    *)
(***************************************************************************)
CursorKeptOnShrink(pos, size) == pos

CursorOneBack(pos, size) == IF size < pos THEN 0 ELSE IF pos > 0 THEN pos - 1 ELSE pos

CursorResetWhenEqual(pos, size) == IF size <= pos THEN 0 ELSE pos

CursorAfterStat(pos, size) == IF size < pos THEN 0 ELSE pos

(***************************************************************************)
(* LogTailer.check, run by the log timer LogInterval after the previous    *)
(* poll.  fail names the call that raises, "none" when none does; the      *)
(* except clause swallows it.  The file does not change during the call.   *)
(***************************************************************************)
LogTimerAlways == TRUE

LogTimerStarted == log_path

Stages == {"none", "stat", "open", "seek", "read"}

NoCheck ==
    [fail |-> "none", exists |-> FALSE, before |-> 0, size |-> 0, analyzed |-> FALSE,
     start |-> 0, stale |-> 0, calls |-> <<>>]

check(fail) ==
    /\ LogTimerStarted
    /\ polls < MaxPolls
    /\ polls' = polls + 1
    /\ now' = now + LogInterval
    /\ IF ~file_exists
       THEN /\ fail = "none"
            /\ position' = position
            /\ ts' = ts
            /\ hist' = hist
            /\ last_check' = [NoCheck EXCEPT !.before = position]
       ELSE IF fail = "stat"
       THEN /\ position' = position
            /\ ts' = ts
            /\ hist' = hist
            /\ last_check' = [NoCheck EXCEPT !.fail = fail, !.exists = TRUE,
                                             !.before = position, !.size = Len(file)]
       ELSE LET current_size == Len(file)
                pos == CursorAfterStat(position, current_size)
                new_content == Decode(SubSeq(file, pos + 1, current_size))
                calls == _analyze(new_content)
            IN  IF current_size > pos /\ fail = "none"
                THEN /\ position' = current_size
                     /\ ts' = StampAll(ts, calls, now')
                     /\ hist' = hist \o Records(calls, now')
                     /\ last_check' =
                            [fail |-> fail, exists |-> TRUE, before |-> position,
                             size |-> current_size, analyzed |-> TRUE, start |-> pos,
                             stale |-> Max(0, preexisting - pos), calls |-> calls]
                ELSE /\ fail # "none" => current_size > pos
                     /\ position' = pos
                     /\ ts' = ts
                     /\ hist' = hist
                     /\ last_check' =
                            [NoCheck EXCEPT !.fail = fail, !.exists = TRUE,
                                            !.before = position, !.size = current_size]
    /\ UNCHANGED <<config, current_state, fs_stores, last_tick, log_path, file_exists, file,
                   preexisting, writes, kept_old>>
    /\ UNCHANGED watchVars

(***************************************************************************)
(* The process that writes the log: it appends a line, cuts the file to a  *)
(* shorter length (truncation, rotation in place), or deletes it.          *)
(***************************************************************************)
AppendWords ==
    {<<"e", "r", "r", "o", "r">>, <<"D", "o", "n", "e">>, <<"b", "u", "i", "l", "d">>,
     <<"o", "xFF", "k">>}

InitialLogs == {<<>>, <<"D", "o", "n", "e">>}

CanWrite == writes < MaxWrites

WriterAppend(word) ==
    /\ CanWrite
    /\ Len(file) + Len(word) <= MaxFile
    /\ writes' = writes + 1
    /\ file_exists' = TRUE
    /\ file' = file \o word
    /\ UNCHANGED <<log_path, position, preexisting, polls, last_check, kept_old>>
    /\ UNCHANGED <<fs_stores, last_tick>>
    /\ UNCHANGED resolverVars
    /\ UNCHANGED watchVars

WriterTruncate(size) ==
    /\ CanWrite
    /\ file_exists
    /\ size < Len(file)
    /\ writes' = writes + 1
    /\ file' = SubSeq(file, 1, size)
    /\ preexisting' = IF size < preexisting THEN size ELSE preexisting
    /\ kept_old' = (kept_old \/ (size > 0 /\ preexisting > 0))
    /\ UNCHANGED <<log_path, file_exists, position, polls, last_check>>
    /\ UNCHANGED <<fs_stores, last_tick>>
    /\ UNCHANGED resolverVars
    /\ UNCHANGED watchVars

WriterDelete ==
    /\ CanWrite
    /\ file_exists
    /\ writes' = writes + 1
    /\ file_exists' = FALSE
    /\ file' = <<>>
    /\ preexisting' = 0
    /\ UNCHANGED <<log_path, position, polls, last_check, kept_old>>
    /\ UNCHANGED <<fs_stores, last_tick>>
    /\ UNCHANGED resolverVars
    /\ UNCHANGED watchVars

(***************************************************************************)
(* Spec: a StateResolver with short durations, its mutators called at      *)
(* arbitrary times, and the state timer.  AvatarApp.start has shown the    *)
(* overlay and set IDLE.                                                   *)
(***************************************************************************)
NoTick == [n |-> 0]

InitTailer(exists, bytes) ==
    /\ log_path = TRUE
    /\ file_exists = exists
    /\ file = bytes
    /\ position = InitialPosition(exists, Len(bytes))
    /\ preexisting = Len(bytes)
    /\ kept_old = FALSE
    /\ writes = 0
    /\ polls = 0
    /\ last_check = NoCheck

InitNoTailer ==
    /\ log_path = FALSE
    /\ file_exists = FALSE
    /\ file = <<>>
    /\ position = 0
    /\ preexisting = 0
    /\ kept_old = FALSE
    /\ writes = 0
    /\ polls = 0
    /\ last_check = NoCheck

InitWatcher(root, arg) ==
    /\ project_dir = root
    /\ exclude_arg = arg
    /\ excludes = WatcherExcludes(ParseExcludes(arg))
    /\ pending = 0
    /\ last_event = NoEvent
    /\ fs_stores = 0
    /\ last_tick = NoTick

Init ==
    /\ now = StartTime
    /\ config = FastConfig
    /\ ts = StateTimestamps
    /\ current_state = "IDLE"
    /\ hist = <<>>
    /\ InitWatcher(<<".">>, <<>>)
    /\ InitNoTailer

Next ==
    \/ on_fs_activity
    \/ on_log_activity
    \/ on_running
    \/ on_success
    \/ on_error
    \/ _update_state
    \/ Advance

Spec == Init /\ [][Next]_vars

(***************************************************************************)
(* SpecResolve: resolve() as a pure function.  The ledger snapshot and the *)
(* clock are drawn from the values around every threshold (a field is      *)
(* either never stamped, 0, or stamped Age tenths ago); the state timer    *)
(* then resolves.  on_running / on_success / on_error stamp the log field  *)
(* too, so last_log_activity is never older than those three.              *)
(***************************************************************************)
Ages(d) == {0} \cup ((d - Slack) .. (d + Slack - 1))

Stamps(t, ds) == {0} \cup {t - a : a \in UNION {Ages(d) : d \in ds}}

Snapshots(t, cfg) ==
    {l \in [last_fs_activity : Stamps(t, {cfg.typing_threshold, cfg.thinking_threshold}),
            last_log_activity : Stamps(t, {cfg.thinking_threshold, cfg.running_duration,
                                           cfg.success_duration, cfg.error_duration}),
            last_running : Stamps(t, {cfg.running_duration}),
            last_success : Stamps(t, {cfg.success_duration}),
            last_error : Stamps(t, {cfg.error_duration})] :
        l.last_log_activity >= Max(l.last_running, Max(l.last_success, l.last_error))}

InitResolve ==
    /\ config \in {StateConfig, FastConfig}
    /\ now = StartTime + config.thinking_threshold + Slack
    /\ ts \in Snapshots(now, config)
    /\ current_state = "IDLE"
    /\ hist = <<>>
    /\ InitWatcher(<<".">>, <<>>)
    /\ InitNoTailer

NextResolve == _update_state

SpecResolve == InitResolve /\ [][NextResolve]_vars

(***************************************************************************)
(* SpecWatch: the application started with one of the --exclude values;    *)
(* the observer delivers events, the queued signals reach the slot, and    *)
(* the state timer ticks.                                                  *)
(***************************************************************************)
InitWatch ==
    /\ now = StartTime
    /\ config = StateConfig
    /\ ts = StateTimestamps
    /\ current_state = "IDLE"
    /\ hist = <<>>
    /\ \E root \in ProjectDirs, arg \in ExcludeArgs : InitWatcher(root, arg)
    /\ InitNoTailer

NextWatch ==
    \/ \E event \in Events(project_dir) : on_any_event(event)
    \/ DeliverActivity
    \/ _update_state

SpecWatch == InitWatch /\ [][NextWatch]_vars

(***************************************************************************)
(* SpecTail: a LogTailer constructed on a log that exists, or does not     *)
(* yet; the writer works on the file and the log timer polls.              *)
(***************************************************************************)
InitTail ==
    /\ now = StartTime
    /\ config = StateConfig
    /\ ts = StateTimestamps
    /\ current_state = "IDLE"
    /\ hist = <<>>
    /\ InitWatcher(<<".">>, <<>>)
    /\ \/ InitTailer(FALSE, <<>>)
       \/ \E bytes \in InitialLogs : InitTailer(TRUE, bytes)

NextTail ==
    \/ \E fail \in Stages : check(fail)
    \/ \E word \in AppendWords : WriterAppend(word)
    \/ \E size \in 0..MaxCut : WriterTruncate(size)
    \/ WriterDelete

SpecTail == InitTail /\ [][NextTail]_vars

(***************************************************************************)
(* The activity condition of each state, as the transition table gives it. *)
(***************************************************************************)
Active(s) ==
    CASE s = "ERROR" -> now - ts.last_error < config.error_duration
      [] s = "SUCCESS" -> now - ts.last_success < config.success_duration
      [] s = "RUNNING" -> now - ts.last_running < config.running_duration
      [] s = "TYPING" -> now - ts.last_fs_activity < config.typing_threshold
      [] s = "THINKING" ->
            \/ now - ts.last_fs_activity < config.thinking_threshold
            \/ now - ts.last_log_activity < config.thinking_threshold
      [] s = "IDLE" -> TRUE

Resolved == Resolve(now, config, ts)

(***************************************************************************)
(* C1 - priority invariant: resolve returns a state whose condition holds, *)
(* no state of higher priority has its condition true, and the result is   *)
(* IDLE exactly when no condition holds; the state timer pushes that value.*)
(***************************************************************************)
C1_Priority ==
    /\ Active(Resolved)
    /\ \A s \in State : Active(s) => StateValue(s) <= StateValue(Resolved)
    /\ Resolved = "IDLE" <=> \A s \in State \ {"IDLE"} : ~Active(s)
    /\ current_state \in {"IDLE", Resolved}

C1_Witness ==
    /\ Active("SUCCESS") /\ Active("RUNNING") /\ Active("TYPING")
    /\ ~Active("ERROR")
    /\ current_state = "SUCCESS"

(***************************************************************************)
(* The triggers of the decay claims: mutator, its state, its duration.     *)
(***************************************************************************)
Triggers == {"on_error", "on_success", "on_running", "on_fs_activity"}

StateOf(m) ==
    CASE m = "on_error" -> "ERROR"
      [] m = "on_success" -> "SUCCESS"
      [] m = "on_running" -> "RUNNING"
      [] m = "on_fs_activity" -> "TYPING"

DurationOf(m) ==
    CASE m = "on_error" -> config.error_duration
      [] m = "on_success" -> config.success_duration
      [] m = "on_running" -> config.running_duration
      [] m = "on_fs_activity" -> config.typing_threshold

CallsOf(m) == {i \in DOMAIN hist : hist[i].m = m}

Called(m) == CallsOf(m) # {}

LastCall(m) == hist[CHOOSE i \in CallsOf(m) : \A j \in CallsOf(m) : j <= i].t

WindowOpen(m) == Called(m) /\ now < LastCall(m) + DurationOf(m)

HigherWindowOpen(m) ==
    \E h \in Triggers :
        StateValue(StateOf(h)) > StateValue(StateOf(m)) /\ WindowOpen(h)

(***************************************************************************)
(* C2 as stated - decay invariant: after the latest trigger of a kind at   *)
(* T, with duration D, resolve(now) is the associated state for every now  *)
(* in [T, T+D) and is not that state for now >= T+D.                       *)
(***************************************************************************)
C2_DecayAsStated ==
    \A m \in Triggers :
        Called(m) =>
            /\ now < LastCall(m) + DurationOf(m) => Resolved = StateOf(m)
            /\ now >= LastCall(m) + DurationOf(m) => Resolved # StateOf(m)

(***************************************************************************)
(* C2 amended - within [T, T+D) resolve(now) is the associated state       *)
(* exactly when no trigger of a higher-priority state has its own window   *)
(* open (then resolve returns a higher state); from T+D on it is never the *)
(* associated state.                                                       *)
(***************************************************************************)
C2_Decay ==
    \A m \in Triggers :
        Called(m) =>
            /\ WindowOpen(m) => (Resolved = StateOf(m) <=> ~HigherWindowOpen(m))
            /\ WindowOpen(m) => StateValue(Resolved) >= StateValue(StateOf(m))
            /\ ~WindowOpen(m) => Resolved # StateOf(m)

C2_Witness ==
    /\ WindowOpen("on_error")
    /\ Called("on_success")
    /\ now = LastCall("on_success") + DurationOf("on_success")
    /\ Resolved = "ERROR"

(***************************************************************************)
(* C3 - re-triggering restarts the window: when a mutator ran at T1 and    *)
(* again, last, at T2 with T1 <= T2 < T1+D, the condition of its state     *)
(* holds at now exactly when now < T2+D: the second call is not ignored    *)
(* (the window outlives T1+D) and nothing accumulates (it ends at T2+D).   *)
(***************************************************************************)
C3_Retrigger ==
    \A m \in Triggers :
        \A i, j \in CallsOf(m) :
            (/\ i < j
             /\ \A k \in CallsOf(m) : k <= j
             /\ hist[j].t < hist[i].t + DurationOf(m))
            => (Active(StateOf(m)) <=> now < hist[j].t + DurationOf(m))

C3_Witness ==
    /\ Len(hist) = 2
    /\ hist[1].m = "on_error" /\ hist[2].m = "on_error"
    /\ hist[1].t < hist[2].t
    /\ now >= hist[1].t + DurationOf("on_error")
    /\ Active("ERROR")

(***************************************************************************)
(* The chunk the last check() passed to the classifier: the decoded bytes  *)
(* [start, size) of the file it read.                                      *)
(***************************************************************************)
ChunkOf(bytes, c) == Decode(SubSeq(bytes, c.start + 1, c.size))

FirstMatch(content) ==
    CASE Search(ERROR, content) -> "on_error"
      [] ~Search(ERROR, content) /\ Search(SUCCESS, content) -> "on_success"
      [] /\ ~Search(ERROR, content) /\ ~Search(SUCCESS, content)
         /\ Search(RUNNING, content) -> "on_running"
      [] OTHER -> "on_log_activity"

(***************************************************************************)
(* C4 - classification is ordered and exclusive: a check() that reads a    *)
(* chunk calls exactly one mutator, the first match in the order ERROR,    *)
(* SUCCESS, RUNNING, generic, and the ledger changes only in that          *)
(* mutator's field and the log-activity field (a chunk matching ERROR and  *)
(* SUCCESS leaves last_success and last_running as they were); a check()   *)
(* that reads nothing leaves the ledger alone.                             *)
(***************************************************************************)
C4_Classification ==
    [][polls' = polls + 1 =>
        IF last_check'.analyzed
        THEN LET m == FirstMatch(ChunkOf(file, last_check'))
             IN  /\ last_check'.calls = <<m>>
                 /\ m = "on_error" =>
                        ts' = [ts EXCEPT !.last_error = now', !.last_log_activity = now']
                 /\ m = "on_success" =>
                        ts' = [ts EXCEPT !.last_success = now', !.last_log_activity = now']
                 /\ m = "on_running" =>
                        ts' = [ts EXCEPT !.last_running = now', !.last_log_activity = now']
                 /\ m = "on_log_activity" =>
                        ts' = [ts EXCEPT !.last_log_activity = now']
        ELSE ts' = ts]_vars

C4_Witness ==
    /\ last_check.analyzed
    /\ last_check.size = Len(file)
    /\ Search(ERROR, ChunkOf(file, last_check))
    /\ Search(SUCCESS, ChunkOf(file, last_check))
    /\ last_check.calls = <<"on_error">>
    /\ ts.last_error = now
    /\ ts.last_success = 0

(***************************************************************************)
(* C5 - rotation: a check() that finds the file smaller than the cursor    *)
(* and meets no I/O failure leaves the cursor at the file size it found,   *)
(* and passes the whole content, bytes [0, size), to the classifier as one *)
(* chunk (nothing when the file is empty).                                 *)
(***************************************************************************)
C5_Rotation ==
    (/\ last_check.exists
     /\ last_check.fail = "none"
     /\ last_check.size < last_check.before)
    => /\ position = last_check.size
       /\ last_check.size > 0 => (last_check.analyzed /\ last_check.start = 0)
       /\ last_check.size = 0 => ~last_check.analyzed

C5_Witness ==
    /\ last_check.exists
    /\ last_check.fail = "none"
    /\ last_check.size > 0
    /\ last_check.size < last_check.before
    /\ last_check.analyzed
    /\ position = last_check.size

(***************************************************************************)
(* C6 as stated - I/O failure: after a check() in which a call failed the  *)
(* cursor equals the cursor before the call, also when that poll had       *)
(* detected a shrink.                                                      *)
(***************************************************************************)
C6_CursorKeptOnFailure ==
    last_check.fail # "none" => position = last_check.before

(***************************************************************************)
(* C7 as stated - only content written after startup is classified: no     *)
(* chunk passed to the classifier holds a byte that the constructor found  *)
(* in the file.                                                            *)
(***************************************************************************)
C7_OnlyNewContent == last_check.stale = 0

(***************************************************************************)
(* C7 amended - as long as no truncation has left bytes of the startup     *)
(* content in place (the file only grew, was emptied or was deleted), no   *)
(* chunk passed to the classifier holds a byte that the constructor found. *)
(***************************************************************************)
C7_OnlyNewUnlessKept == ~kept_old => last_check.stale = 0

C7_Witness ==
    /\ polls = 1
    /\ ~kept_old
    /\ last_check.before > 0
    /\ last_check.size < last_check.before
    /\ last_check.analyzed
    /\ last_check.stale = 0

(***************************************************************************)
(* C8 as stated - the effective exclusion set always contains the default  *)
(* names, whatever the caller supplies.                                    *)
(***************************************************************************)
C8_DefaultsKept == DEFAULT_EXCLUDES \subseteq excludes

(***************************************************************************)
(* A path has a component equal to name: name stands in the path between   *)
(* separators or the ends of the path.                                     *)
(***************************************************************************)
HasComponent(path, name) ==
    \E i, j \in 1..Len(path) :
        /\ i <= j
        /\ SubSeq(path, i, j) = name
        /\ i = 1 \/ path[i - 1] = "/"
        /\ j = Len(path) \/ path[j + 1] = "/"

(***************************************************************************)
(* C9 - filesystem filter: the handled event emitted one notification if   *)
(* it is not a directory event and no component of its path equals a name  *)
(* of the exclusion set, and none otherwise, whatever its type; with       *)
(* node_modules excluded a path with that component is dropped, and a      *)
(* component node_modules_extra alone drops nothing.                       *)
(***************************************************************************)
C9_Filter ==
    LET e == last_event
        accepted ==
            /\ ~e.is_directory
            /\ \A name \in excludes : ~HasComponent(e.src_path, name)
    IN  /\ last_event.emitted = (IF accepted THEN 1 ELSE 0)
        /\ (<<"node_modules">> \in excludes /\ HasComponent(e.src_path, <<"node_modules">>))
                => last_event.emitted = 0
        /\ (/\ ~e.is_directory
             /\ e.src_path = project_dir \o <<"/", "node_modules", "_extra", "/", "main.py">>)
                => last_event.emitted = 1

C9_Witness ==
    /\ <<"node_modules">> \in excludes
    /\ last_event.src_path = <<"/", "proj", "/", "node_modules", "_extra", "/", "main.py">>
    /\ ~last_event.is_directory
    /\ last_event.emitted = 1
    /\ pending = 2

(***************************************************************************)
(* C10 as stated - backpressure: between two consecutive state ticks       *)
(* last_fs_activity is stored at most once, however many events arrive.    *)
(***************************************************************************)
C10_OneStorePerTick == fs_stores <= 1

(***************************************************************************)
(* C11 as stated - eventual consistency within one tick: every event the   *)
(* watcher accepted, and every completed log poll, is in the ledger no     *)
(* later than the next state tick that follows it; so a state tick never   *)
(* runs while an accepted event's signal is still waiting for its slot.    *)
(***************************************************************************)
C11_SeenByNextTick == [][last_tick'.n # last_tick.n => pending = 0]_vars

(***************************************************************************)
(* The mutators a classified log line calls, and the field each stamps.    *)
(***************************************************************************)
Classified == {"on_running", "on_success", "on_error"}

FieldOf(m) ==
    CASE m = "on_running" -> "last_running"
      [] m = "on_success" -> "last_success"
      [] m = "on_error" -> "last_error"
      [] m = "on_log_activity" -> "last_log_activity"
      [] m = "on_fs_activity" -> "last_fs_activity"

(***************************************************************************)
(* C12 - classified log events extend THINKING: when on_running,           *)
(* on_success or on_error was the last call, at T, its own field and       *)
(* last_log_activity both hold T; inside its window resolve returns its    *)
(* state unless a higher one is active; and once its duration has elapsed  *)
(* and no other window is open, resolve returns THINKING until the         *)
(* thinking threshold after T and IDLE from then on.                       *)
(***************************************************************************)
C12_LogStampExtendsThinking ==
    \A m \in Classified :
        (hist # <<>> /\ hist[Len(hist)].m = m) =>
            LET T == hist[Len(hist)].t
            IN  /\ ts[FieldOf(m)] = T
                /\ ts.last_log_activity = T
                /\ (WindowOpen(m) /\ ~HigherWindowOpen(m)) => Resolved = StateOf(m)
                /\ (now >= T + DurationOf(m) /\ ~\E h \in Triggers : WindowOpen(h))
                       => Resolved = (IF now < T + config.thinking_threshold
                                      THEN "THINKING" ELSE "IDLE")

C12_Witness ==
    /\ hist # <<>>
    /\ hist[Len(hist)].m = "on_success"
    /\ now = hist[Len(hist)].t + config.success_duration
    /\ ts.last_fs_activity = 0
    /\ Resolved = "THINKING"
    /\ current_state = "THINKING"

(***************************************************************************)
(* SpecConfig: StateResolver(config) constructed with no argument (<<>>,   *)
(* the defaults apply) or with a StateConfig, among them one with a zero   *)
(* and one with a negative duration; its mutators are then called and the  *)
(* state timer ticks.  Neither StateConfig nor StateResolver.__init__      *)
(* looks at the values.                                                    *)
(***************************************************************************)
ZeroConfig == [FastConfig EXCEPT !.error_duration = 0]

NegativeConfig == [FastConfig EXCEPT !.typing_threshold = -1]

ConfigArgs == {<<>>, <<FastConfig>>, <<ZeroConfig>>, <<NegativeConfig>>}

ResolverConfig(arg) == IF arg = <<>> THEN StateConfig ELSE arg[1]

InitConfig ==
    /\ now = StartTime
    /\ \E arg \in ConfigArgs : config = ResolverConfig(arg)
    /\ ts = StateTimestamps
    /\ current_state = "IDLE"
    /\ hist = <<>>
    /\ InitWatcher(<<".">>, <<>>)
    /\ InitNoTailer

NextConfig ==
    \/ on_fs_activity
    \/ on_log_activity
    \/ on_running
    \/ on_success
    \/ on_error
    \/ _update_state

SpecConfig == InitConfig /\ [][NextConfig]_vars

(***************************************************************************)
(* C13 as stated - invalid configuration is rejected at startup: an engine *)
(* cannot be constructed with a zero or negative duration, so in every     *)
(* state of a running engine each of the five durations is positive.       *)
(***************************************************************************)
C13_PositiveDurations ==
    /\ config.error_duration > 0
    /\ config.success_duration > 0
    /\ config.running_duration > 0
    /\ config.typing_threshold > 0
    /\ config.thinking_threshold > 0

(***************************************************************************)
(* C16 - no-op when nothing is to be read: a check() that finds no file,   *)
(* or a file whose size equals the cursor, leaves the cursor and the five  *)
(* timestamps as they were and calls no mutator.                           *)
(***************************************************************************)
C16_NothingToRead ==
    [][(/\ polls' = polls + 1
        /\ (~file_exists \/ Len(file) = position))
       => (/\ position' = position
           /\ ts' = ts
           /\ hist' = hist
           /\ ~last_check'.analyzed
           /\ last_check'.calls = <<>>)]_vars

C16_Witness ==
    /\ polls > 0
    /\ last_check.exists
    /\ last_check.fail = "none"
    /\ last_check.size > 0
    /\ last_check.size = last_check.before
    /\ ~last_check.analyzed
    /\ position = last_check.before

(***************************************************************************)
(* SpecDecay: the engine with the default durations, at most one           *)
(* on_fs_activity call and nothing else; the clock runs past the thinking  *)
(* threshold and the state timer ticks.                                    *)
(***************************************************************************)
InitDecay ==
    /\ now = StartTime
    /\ config = StateConfig
    /\ ts = StateTimestamps
    /\ current_state = "IDLE"
    /\ hist = <<>>
    /\ InitWatcher(<<".">>, <<>>)
    /\ InitNoTailer

NextDecay ==
    \/ (hist = <<>> /\ on_fs_activity)
    \/ _update_state
    \/ Advance

SpecDecay == InitDecay /\ [][NextDecay]_vars

(***************************************************************************)
(* C17 - filesystem-only decay: after one on_fs_activity at T and no other *)
(* call, resolve returns TYPING for now in [T, T + typing_threshold),      *)
(* THINKING in [T + typing_threshold, T + thinking_threshold) and IDLE     *)
(* from T + thinking_threshold on; with the defaults TYPING 1.0 s after    *)
(* the event, THINKING 1.3 s after it and IDLE 8.1 s after it.             *)
(***************************************************************************)
C17_FsOnlyDecay ==
    (Len(hist) = 1 /\ hist[1].m = "on_fs_activity") =>
        LET T == hist[1].t
        IN  /\ Resolved = (IF now < T + config.typing_threshold THEN "TYPING"
                           ELSE IF now < T + config.thinking_threshold THEN "THINKING"
                           ELSE "IDLE")
            /\ now = T + 10 => Resolved = "TYPING"
            /\ now = T + 13 => Resolved = "THINKING"
            /\ now = T + 81 => Resolved = "IDLE"

C17_Witness ==
    /\ Len(hist) = 1
    /\ hist[1].m = "on_fs_activity"
    /\ now = hist[1].t + config.thinking_threshold
    /\ current_state = "THINKING"
    /\ Resolved = "IDLE"

(***************************************************************************)
(* C19 - the initial ledger is "never": while no mutator has run, all five *)
(* timestamps are 0, further back than any threshold reaches from a clock  *)
(* reading at or after startup, and resolve returns IDLE at every such     *)
(* reading.                                                                *)
(***************************************************************************)
C19_InitiallyIdle ==
    hist = <<>> =>
        /\ ts = StateTimestamps
        /\ \A f \in DOMAIN ts : now - ts[f] >= config.thinking_threshold
        /\ Resolved = "IDLE"
        /\ current_state = "IDLE"

C19_Witness ==
    /\ hist = <<>>
    /\ now > StartTime + config.thinking_threshold
    /\ last_tick.n = 1
    /\ current_state = "IDLE"

(***************************************************************************)
(* C18 - output per fast tick: a state tick pushes one State to the        *)
(* overlay, the value resolve() returns for the clock and ledger of that   *)
(* moment; after it the overlay's current_state is that value, which       *)
(* leaves the overlay as it was when the value equals the one it had; the  *)
(* tick changes neither the ledger nor the clock.                          *)
(***************************************************************************)
C18_TickPushesResolved ==
    [][last_tick'.n # last_tick.n
       => (/\ current_state' = Resolve(now, config, ts)
           /\ current_state' \in State
           /\ Resolve(now, config, ts) = current_state => current_state' = current_state
           /\ UNCHANGED <<now, ts, config>>)]_vars

C18_Witness ==
    /\ hist # <<>>
    /\ last_tick.n = 1
    /\ current_state = "SUCCESS"
    /\ Resolved = "SUCCESS"
    /\ ts.last_error > 0

(***************************************************************************)
(* SpecApp: the application as AvatarApp.start wires it, started with or   *)
(* without --log.  The observer reports modifications of a file under the  *)
(* watched root, the queued signals reach the slot and the state timer     *)
(* ticks.  With --log another process appends lines to the log file and    *)
(* the log timer polls it (a poll may fail at any call), the clock moving  *)
(* on LogInterval from one poll to the next; without --log there is no log *)
(* file to write to and the clock moves on tenth by tenth.  The short      *)
(* durations stand for the defaults, in the same order.                    *)
(***************************************************************************)
AppEvents(root) ==
    {e \in Events(root) :
        /\ e.event_type = "modified"
        /\ ~e.is_directory
        /\ e.src_path = root \o <<"/", "main.py">>}

AppWords == {<<"e", "r", "r", "o", "r">>, <<"D", "o", "n", "e">>}

InitApp ==
    /\ now = StartTime
    /\ config = FastConfig
    /\ ts = StateTimestamps
    /\ current_state = "IDLE"
    /\ hist = <<>>
    /\ InitWatcher(<<".">>, <<>>)
    /\ \/ InitNoTailer
       \/ InitTailer(FALSE, <<>>)

NextApp ==
    \/ \E event \in AppEvents(project_dir) : on_any_event(event)
    \/ DeliverActivity
    \/ \E fail \in Stages : check(fail)
    \/ \E word \in AppWords : (log_path /\ WriterAppend(word))
    \/ _update_state
    \/ (~log_path /\ Advance)

SpecApp == InitApp /\ [][NextApp]_vars

(***************************************************************************)
(* C14 - missing log path: started without --log the application has no    *)
(* tailer and no log timer (no poll ever runs); last_log_activity,         *)
(* last_running, last_success and last_error keep their initial value; the *)
(* resolved state and the state shown are IDLE, THINKING or TYPING; and    *)
(* delivered filesystem events still drive it: TYPING until the typing     *)
(* threshold after the last one, THINKING until the thinking threshold,    *)
(* IDLE after.                                                             *)
(***************************************************************************)
C14_NoLogPath ==
    ~log_path =>
        /\ polls = 0
        /\ last_check = NoCheck
        /\ ts.last_log_activity = StateTimestamps.last_log_activity
        /\ ts.last_running = StateTimestamps.last_running
        /\ ts.last_success = StateTimestamps.last_success
        /\ ts.last_error = StateTimestamps.last_error
        /\ Resolved \in {"IDLE", "THINKING", "TYPING"}
        /\ current_state \in {"IDLE", "THINKING", "TYPING"}
        /\ Called("on_fs_activity") =>
               LET T == LastCall("on_fs_activity")
               IN  Resolved = (IF now < T + config.typing_threshold THEN "TYPING"
                               ELSE IF now < T + config.thinking_threshold THEN "THINKING"
                               ELSE "IDLE")

C14_Witness ==
    /\ ~log_path
    /\ Called("on_fs_activity")
    /\ current_state = "TYPING"
    /\ Resolved = "THINKING"
    /\ now > StartTime + config.typing_threshold

(***************************************************************************)
(* C15 - ledger monotonicity: no step of the application - a filesystem    *)
(* notification, its delivery, a log poll, a state tick, in any order -    *)
(* lowers any of the five timestamps.  The clock readings are those of a   *)
(* clock that is not set back.                                             *)
(***************************************************************************)
C15_LedgerMonotone ==
    [][\A f \in DOMAIN ts : ts'[f] >= ts[f]]_vars

C15_Witness ==
    /\ \E i, j \in DOMAIN hist :
           /\ i < j
           /\ hist[i].m = "on_fs_activity"
           /\ hist[j].m = "on_fs_activity"
           /\ hist[i].t < hist[j].t
           /\ ts.last_fs_activity = hist[j].t
    /\ ts.last_error > ts.last_fs_activity
    /\ last_tick.n = 1

(***************************************************************************)
(* The fields the log tailer's classification stamps.                      *)
(***************************************************************************)
LogFields == {"last_log_activity", "last_running", "last_success", "last_error"}

(***************************************************************************)
(* C20 - single producer per ledger field: last_fs_activity changes only   *)
(* in the delivery of a filesystem notification, which changes no other    *)
(* field; last_log_activity, last_running, last_success and last_error     *)
(* change only in a log poll that classified new content, which does not   *)
(* change last_fs_activity; a state tick (resolve) changes no field.       *)
(***************************************************************************)
C20_SingleProducer ==
    [][/\ ts'.last_fs_activity # ts.last_fs_activity
          => (/\ pending' = pending - 1
              /\ polls' = polls
              /\ \A f \in LogFields : ts'[f] = ts[f])
       /\ (\E f \in LogFields : ts'[f] # ts[f])
          => (/\ polls' = polls + 1
              /\ last_check'.analyzed
              /\ pending' = pending
              /\ ts'.last_fs_activity = ts.last_fs_activity)
       /\ last_tick' # last_tick => ts' = ts]_vars

C20_Witness ==
    /\ ts.last_fs_activity > 0
    /\ ts.last_success > ts.last_fs_activity
    /\ ts.last_error = 0
    /\ last_tick.n = 1
    /\ current_state = "SUCCESS"

(***************************************************************************)
(* C21 - monotone decay between events: across any step in which no        *)
(* mutator is called (the clock moves on, or the state timer ticks) the    *)
(* value resolve() returns does not rise in the order IDLE < THINKING <    *)
(* TYPING < RUNNING < SUCCESS < ERROR; it rises only in a step that calls  *)
(* a mutator.  The clock does not go backwards.                            *)
(***************************************************************************)
C21_MonotoneDecay ==
    [][/\ hist' = hist =>
              StateValue(Resolve(now', config', ts')) <= StateValue(Resolve(now, config, ts))
       /\ StateValue(Resolve(now', config', ts')) > StateValue(Resolve(now, config, ts))
              => (Len(hist') = Len(hist) + 1 /\ now' = now)
       /\ now' >= now]_vars

C21_Witness ==
    /\ Len(hist) >= 2
    /\ hist[1].m = "on_error"
    /\ hist[Len(hist)].m = "on_running"
    /\ hist[Len(hist)].t = hist[1].t
    /\ current_state = "ERROR"
    /\ last_tick.n = 1
    /\ Resolved = "THINKING"

(***************************************************************************)
(* SpecAppend: a LogTailer on a log that only grows: the writer appends,   *)
(* the log timer polls, and no call of a poll fails.                       *)
(***************************************************************************)
NextAppend ==
    \/ check("none")
    \/ \E word \in AppendWords : WriterAppend(word)

SpecAppend == InitTail /\ [][NextAppend]_vars

(***************************************************************************)
(* C22 - exactly-once tailing: while the file only grows and no poll       *)
(* fails, the cursor starts at the size the constructor found and never    *)
(* moves back; a check() reads exactly when the file is longer than the    *)
(* cursor, and then the chunk it hands to the classifier (decoded) is the  *)
(* bytes from the cursor to the end of the file, so consecutive chunks are *)
(* adjacent: no appended byte is skipped and none is read twice; after     *)
(* every check() of an existing file the cursor equals the file size, and  *)
(* 0 <= cursor <= file size throughout.                                    *)
(***************************************************************************)
C22_ExactlyOnce ==
    [][/\ polls = 0 => position = preexisting
       /\ position <= position'
       /\ 0 <= position' /\ position' <= Len(file')
       /\ polls' = polls + 1 =>
              /\ last_check'.analyzed <=> (file_exists /\ Len(file) > position)
              /\ last_check'.analyzed =>
                     /\ last_check'.start = position
                     /\ last_check'.size = Len(file)
                     /\ last_check'.calls =
                            <<FirstMatch(Decode(SubSeq(file, position + 1, Len(file))))>>
              /\ position' = (IF file_exists THEN Len(file) ELSE position)]_vars

C22_Witness ==
    /\ polls >= 2
    /\ last_check.analyzed
    /\ last_check.before > preexisting
    /\ last_check.start = last_check.before
    /\ last_check.size > last_check.start
    /\ position = Len(file)

====
